---------------------------- MODULE Spec2Model ----------------------------
(***************************************************************************)
(* Segment extraction of data_proc_adarp.py.                               *)
(*                                                                         *)
(* Time is counted in ticks of 1/Den second, so a timestamp with a         *)
(* fractional-second part is an integer number of ticks and every          *)
(* float expression of the source is an exact rational here.  A sensor     *)
(* file is the sequence of its rows <<start_time, sampling_freq, v0, v1,   *)
(* ...>>; the payload value of row i is i itself, so a slice shows which   *)
(* rows it holds.  Python indices are 0-based, TLA+ sequences 1-based.     *)
(***************************************************************************)
EXTENDS Integers, Sequences, FiniteSets, TLC

\* ------------------------------------------------------------------ bounds
Den == 2          \* ticks per second
MaxLen == 5       \* payload samples of a sensor file
MaxTags == 2      \* tag timestamps of a tags file
MaxSeg == 2       \* segment_size, in seconds
MaxTime == 13     \* latest tag timestamp, in ticks

StartTimes == {2}           \* start_time of a sensor file, in ticks
Rates == {1, 2}             \* sampling_freq of a sensor file, in Hz
TagTimes == 0 .. MaxTime

Min(a, b) == IF a < b THEN a ELSE b
Max(a, b) == IF a > b THEN a ELSE b

\* ------------------------------------------------------- Python primitives
\* int(num / den) for den > 0: truncation toward zero.
Trunc(num, den) == IF num >= 0 THEN num \div den ELSE -((-num) \div den)

\* A slice bound as Python normalises it for a sequence of length len.
slice_index(i, len) == IF i < 0 THEN Max(0, i + len) ELSE Min(i, len)

\* seq[from_:to_]
PySlice(seq, from_, to_) ==
    LET lo == slice_index(from_, Len(seq))
        hi == slice_index(to_, Len(seq))
    IN  IF hi > lo THEN SubSeq(seq, lo + 1, hi) ELSE << >>

\* Mutant: only the start-time row stripped.
payload_from_row_1(seq) == PySlice(seq, 1, Len(seq))

\* seq[2:]
payload_of(seq) == PySlice(seq, 2, Len(seq))

\* --------------------------------------------------------- get_sensor_data
\* file = [ok |-> the file can be read, rows |-> its rows]
get_sensor_data(file) == IF file.ok THEN file.rows ELSE << >>

\* --------------------------------------------- extract_segments_around_tags
\* int((segment_size // 2) * sampling_freq)
n_obs(segment_size, sampling_freq) == (segment_size \div 2) * sampling_freq

\* Mutant: the end of the sensor time excluded.
tag_in_sensor_time_open_end(timestamp, start_time, sampling_freq, data_length) ==
    /\ timestamp >= start_time
    /\ (timestamp - start_time) * sampling_freq < data_length * Den

\* (timestamp >= start_time) & (timestamp <= end_time), with
\* end_time = start_time + data_length / sampling_freq
tag_in_sensor_time(timestamp, start_time, sampling_freq, data_length) ==
    /\ timestamp >= start_time
    /\ (timestamp - start_time) * sampling_freq <= data_length * Den

\* difference = int(timestamp - start_time); position = int(difference * sampling_freq)
tag_position(timestamp, start_time, sampling_freq) ==
    Trunc(Trunc(timestamp - start_time, Den) * sampling_freq, 1)

\* if (from_ < 0): from_ = 0
clamp_from(from_) == IF from_ < 0 THEN 0 ELSE from_

\* if (to_ > data_length): to_ = data_length
clamp_to(to_, data_length) == IF to_ > data_length THEN data_length ELSE to_

\* One iteration of the loop for a tag in range: the entry appended.  Beside
\* the slice itself (seg) the entry records the locals it was cut with.
around_segment(data, tags, segment_size, i) ==
    LET start_time == data[1]
        sampling_freq == data[2]
        sensor_data == payload_of(data)
        data_length == Len(sensor_data)
        position == tag_position(tags[i], start_time, sampling_freq)
        from_ == clamp_from(position - n_obs(segment_size, sampling_freq))
        to_ == clamp_to(position + n_obs(segment_size, sampling_freq), data_length)
    IN  [tag |-> i, position |-> position, from_ |-> from_, to_ |-> to_,
         seg |-> PySlice(sensor_data, from_, to_)]

RECURSIVE around_loop(_, _, _, _)
around_loop(data, tags, segment_size, i) ==
    IF i > Len(tags) THEN << >>
    ELSE (IF tag_in_sensor_time(tags[i], data[1], data[2], Len(payload_of(data)))
          THEN << around_segment(data, tags, segment_size, i) >>
          ELSE << >>)
         \o around_loop(data, tags, segment_size, i + 1)

\* data[0] and data[1] raise IndexError on the empty list of a failed read.
extract_segments_around_tags(data, tags, segment_size) ==
    IF Len(data) < 2
    THEN [raised |-> TRUE, segments |-> << >>]
    ELSE [raised |-> FALSE, segments |-> around_loop(data, tags, segment_size, 1)]

\* ------------------------------------------ get_segments_between_timestamps
\* Mutant: the last boundary taken from the payload length.
between_boundaries_payload_end(data, tag_timestamps) ==
    << data[1] * data[2] >>
    \o [k \in 1 .. Len(tag_timestamps) |-> tag_timestamps[k] * data[2]]
    \o << data[1] * data[2] + (Len(data) - 2) * Den >>

\* tags = [start_time] + tag_timestamps + [tags[0] + len(data) / sampling_freq],
\* every boundary multiplied by sampling_freq so that the last one is exact.
between_boundaries(data, tag_timestamps) ==
    << data[1] * data[2] >>
    \o [k \in 1 .. Len(tag_timestamps) |-> tag_timestamps[k] * data[2]]
    \o << data[1] * data[2] + Len(data) * Den >>

\* int((start_tag - start_time) * sampling_freq + n_observation)
here_index(start_tag, data, n_observation) ==
    Trunc((start_tag - data[1] * data[2]) + n_observation * Den, Den)

\* int((end_tag - start_time) * sampling_freq - n_observation)
there_index(end_tag, data, n_observation) ==
    Trunc((end_tag - data[1] * data[2]) - n_observation * Den, Den)

\* Mutant: a pair of equal indices kept.
between_keep_equal(here_, there_) == (there_ - here_) >= 0

\* if((there_ - here_) > 0)
between_keep(here_, there_) == (there_ - here_) > 0

RECURSIVE between_loop(_, _, _, _)
between_loop(data, bounds, n_observation, i) ==
    IF i + 1 > Len(bounds) THEN << >>
    ELSE LET here_ == here_index(bounds[i], data, n_observation)
             there_ == there_index(bounds[i + 1], data, n_observation)
         IN  (IF between_keep(here_, there_)
              THEN << [pair |-> i, here_ |-> here_, there_ |-> there_,
                       seg |-> PySlice(payload_of(data), here_, there_)] >>
              ELSE << >>)
             \o between_loop(data, bounds, n_observation, i + 1)

\* Mutant: the segments collected in a fresh list.
get_segments_between_timestamps_fresh_list(data, tag_timestamps, segment_size, segs) ==
    IF Len(data) = 0 THEN segs
    ELSE IF Len(tag_timestamps) = 0
    THEN << [pair |-> 0, here_ |-> 2, there_ |-> Len(data),
             seg |-> payload_of(data)] >>
    ELSE between_loop(data, between_boundaries(data, tag_timestamps),
                      n_obs(segment_size, data[2]), 1)

get_segments_between_timestamps(data, tag_timestamps, segment_size, segs) ==
    IF Len(data) = 0 THEN segs
    ELSE IF Len(tag_timestamps) = 0
    THEN Append(segs, [pair |-> 0, here_ |-> 2, there_ |-> Len(data),
                       seg |-> payload_of(data)])
    ELSE segs \o between_loop(data, between_boundaries(data, tag_timestamps),
                              n_obs(segment_size, data[2]), 1)

\* ------------------------------------------------------ get_tag_timestamps
\* Mutant: the header line parsed like the others.
get_tag_timestamps_with_header(tag_file) ==
    IF Len(tag_file) < 2
    THEN [raised |-> FALSE, value |-> << >>]
    ELSE IF \E k \in 1 .. Len(tag_file) : ~tag_file[k].numeric
    THEN [raised |-> TRUE, value |-> << >>]
    ELSE [raised |-> FALSE,
          value |-> [k \in 1 .. Len(tag_file) |-> tag_file[k].value]]

\* A tags file is the sequence of its lines; of a line only column 0 matters:
\* [numeric |-> float(row[0]) succeeds, value |-> the timestamp in ticks].
\* float() of a malformed column raises ValueError out of the function.
get_tag_timestamps(tag_file) ==
    IF Len(tag_file) < 2
    THEN [raised |-> FALSE, value |-> << >>]
    ELSE IF \E k \in 2 .. Len(tag_file) : ~tag_file[k].numeric
    THEN [raised |-> TRUE, value |-> << >>]
    ELSE [raised |-> FALSE,
          value |-> [k \in 1 .. (Len(tag_file) - 1) |-> tag_file[k + 1].value]]

\* ------------------------------------------------------ the batch functions
\* extract_data_around_tags, not_stressed_data_from_all_files and
\* extract_data_without_tags.  The names they read but this file does not
\* define (data_folder, output_folder, save_data, get_window_segment, the
\* filters) are taken as supplied by the caller's environment, and the path
\* handed to get_tag_timestamps as naming the folder's tags file.
NPart == 2              \* participants of participants_folder
NFold == 2              \* recording folders of a participant
BatchLen == 4           \* payload samples of every sensor file of the batch
BatchSegmentLength == 2 \* segment_length the batch is run with

Modalities == { "EDA", "TEMP", "BVP", "HR", "ACC" }
E4_SF == [EDA |-> 4, TEMP |-> 4, BVP |-> 64, HR |-> 1, ACC |-> 32]
tag_segment_length_seconds == 40 * 60

\* The signal conditioning applied to EDA segments (filters.butter_lowpassfilter,
\* then preprocessing.normalization): one output per input, in order.
conditioned(entries) ==
    [k \in 1 .. Len(entries) |-> [entries[k] EXCEPT !.seg = << "conditioned", @ >>]]

\* get_window_segment(data[2:], segment_length, sampling rate): the full windows
\* of segment_length * rate samples, one after the other.
get_window_segment(values, segment_length, rate) ==
    LET w == segment_length * rate
        count == IF w > 0 THEN Len(values) \div w ELSE 0
    IN  [k \in 1 .. count |->
            [window |-> k, seg |-> SubSeq(values, (k - 1) * w + 1, k * w)]]

\* get_<modality>_data_around_tags(data_folder, tag_timestamps, segment_size)
get_data_around_tags(m, sensor_file, tag_timestamps, segment_size) ==
    LET r == extract_segments_around_tags(get_sensor_data(sensor_file),
                                          tag_timestamps, segment_size)
    IN  IF m = "EDA" THEN conditioned(r.segments) ELSE r.segments

\* The loop body of extract_data_around_tags for one folder, per modality:
\* what the lists part (part_<m>_data, and likewise <m>_data) hold afterwards.
around_tags_folder(part, sensor, tag_timestamps) ==
    [m \in Modalities |->
        IF Len(tag_timestamps) > 0
        THEN part[m] \o get_data_around_tags(m, sensor[m], tag_timestamps,
                                             BatchSegmentLength)
        ELSE part[m]]

\* The loop body of not_stressed_data_from_all_files for one folder.
between_tags_folder(part, sensor, tag_timestamps) ==
    [m \in Modalities |->
        get_segments_between_timestamps(get_sensor_data(sensor[m]), tag_timestamps,
                                        tag_segment_length_seconds, part[m])]

\* The loop body of extract_data_without_tags for one folder.
without_tags_folder(part, sensor, tag_timestamps) ==
    [m \in Modalities |->
        IF Len(tag_timestamps) = 0
        THEN part[m] \o get_window_segment(payload_of(get_sensor_data(sensor[m])),
                                           BatchSegmentLength, E4_SF[m])
        ELSE part[m]]

\* ------------------------------------------------------------------- state
VARIABLES
    file,           \* the sensor file of the recording folder
    tags,           \* tag timestamps, in file order
    segment_size,   \* seconds
    prior,          \* the accumulator handed to get_segments_between_timestamps
    stage,          \* "start" | "read"
    data,           \* what get_sensor_data returned
    around,         \* result of extract_segments_around_tags, once called
    between,        \* result of get_segments_between_timestamps, once called
    mode,           \* the batch function running: "around_tags" |
                    \* "between_tags" | "without_tags", or "none"
    tag_files,      \* tag_files[p][f]: the tags file of folder f of participant p
    part,           \* participant of the outer loop
    fold,           \* folder of the inner loop; NFold + 1 once the loop is over
    part_data,      \* part_<m>_data of the current participant
    saved,          \* what save_data was called with, in call order
    all_data,       \* <m>_data, the lists over all participants
    status,         \* "running" | "returned" | "raised"
    tag_file,       \* a tags file handed to get_tag_timestamps
    tag_result,     \* what get_tag_timestamps did with it, once called
    win_input,      \* the arguments of segment_sensor_data
    win_result,     \* what segment_sensor_data returned, once called
    verified_files, \* verified_files[p]: the verified-tags file of participant p
    tag_events,     \* tag_events of extract_segments_for_verified_tags
    tag_bound       \* whether its local variable `tag` is bound

seg_vars == << file, tags, segment_size, prior, stage, data, around, between >>
batch_vars == << mode, tag_files, part, fold, part_data, saved, all_data, status >>
extra_vars == << tag_file, tag_result, win_input, win_result,
                verified_files, tag_events, tag_bound >>
vars == << seg_vars, batch_vars, extra_vars >>

rows_of(start_time, sampling_freq, n) ==
    << start_time, sampling_freq >> \o [k \in 1 .. n |-> k - 1]

SensorFiles ==
    { [ok |-> FALSE, rows |-> << >>] }
    \cup { [ok |-> TRUE, rows |-> rows_of(s, r, n)] :
           s \in StartTimes, r \in Rates, n \in 0 .. MaxLen }

TagLists == UNION { [1 .. k -> TagTimes] : k \in 0 .. MaxTags }

\* A segment collected from an earlier folder of the same participant.
EarlierSegment == [pair |-> 0, here_ |-> 2, there_ |-> 3, seg |-> << 0 >>]

NotCalled == [called |-> FALSE]

EmptyLists == [m \in Modalities |-> << >>]

SegInit ==
    /\ file \in SensorFiles
    /\ tags \in TagLists
    /\ segment_size \in 0 .. MaxSeg
    /\ prior \in { << >>, << EarlierSegment >> }
    /\ stage = "start"
    /\ data = << >>
    /\ around = NotCalled
    /\ between = NotCalled

BatchIdle ==
    /\ mode = "none"
    /\ tag_files = << >>
    /\ part = 0
    /\ fold = 0
    /\ part_data = EmptyLists
    /\ saved = << >>
    /\ all_data = EmptyLists
    /\ status = "returned"

TagIdle ==
    /\ tag_file = << >>
    /\ tag_result = NotCalled

WindowIdle ==
    /\ win_input = << >>
    /\ win_result = NotCalled

VerifiedIdle ==
    /\ verified_files = << >>
    /\ tag_events = << >>
    /\ tag_bound = FALSE

Init == SegInit /\ BatchIdle /\ TagIdle /\ WindowIdle /\ VerifiedIdle

ReadSensor ==
    /\ stage = "start"
    /\ data' = get_sensor_data(file)
    /\ stage' = "read"
    /\ UNCHANGED << file, tags, segment_size, prior, around, between >>
    /\ UNCHANGED batch_vars
    /\ UNCHANGED extra_vars

CallAround ==
    /\ stage = "read"
    /\ ~around.called
    /\ around' = [called |-> TRUE,
                  result |-> extract_segments_around_tags(data, tags, segment_size)]
    /\ UNCHANGED << file, tags, segment_size, prior, stage, data, between >>
    /\ UNCHANGED batch_vars
    /\ UNCHANGED extra_vars

CallBetween ==
    /\ stage = "read"
    /\ ~between.called
    /\ between' = [called |-> TRUE,
                   segments |-> get_segments_between_timestamps(
                                    data, tags, segment_size, prior)]
    /\ UNCHANGED << file, tags, segment_size, prior, stage, data, around >>
    /\ UNCHANGED batch_vars
    /\ UNCHANGED extra_vars

Next == ReadSensor \/ CallAround \/ CallBetween

Spec == Init /\ [][Next]_vars

\* ---------------------------------------------------------------- the batch
\* The files of the batch.  Every sensor file can be read; its header carries
\* the sampling rate of its modality and its payload values name the folder.
TagLine(t) == [numeric |-> TRUE, value |-> t]
HeaderLine == [numeric |-> FALSE, value |-> 0]
MalformedLine == [numeric |-> FALSE, value |-> 0]
TagFiles ==
    { << HeaderLine >>,
      << HeaderLine, TagLine(4), TagLine(2) >>,
      << HeaderLine, TagLine(4), MalformedLine >> }

sensor_files(p, f) ==
    [m \in Modalities |->
        [ok |-> TRUE,
         rows |-> << 2, E4_SF[m] >>
                  \o [k \in 1 .. BatchLen |-> 100 * p + 10 * f + (k - 1)]]]

BatchStart ==
    /\ mode \in { "around_tags", "between_tags", "without_tags" }
    /\ tag_files \in [1 .. NPart -> [1 .. NFold -> TagFiles]]
    /\ part = 1
    /\ fold = 1
    /\ part_data = EmptyLists
    /\ saved = << >>
    /\ all_data = EmptyLists
    /\ status = "running"

SegIdle ==
    /\ file = [ok |-> FALSE, rows |-> << >>]
    /\ tags = << >>
    /\ segment_size = 0
    /\ prior = << >>
    /\ stage = "start"
    /\ data = << >>
    /\ around = NotCalled
    /\ between = NotCalled

\* One pass of the inner loop `for sub in subfolders`.  get_tag_timestamps is
\* called outside any try: what it raises leaves the batch function.
ProcessFolder ==
    /\ status = "running"
    /\ fold <= NFold
    /\ LET r == get_tag_timestamps(tag_files[part][fold])
           sensor == sensor_files(part, fold)
       IN  IF r.raised
           THEN /\ status' = "raised"
                /\ UNCHANGED << fold, part_data, all_data >>
           ELSE /\ status' = status
                /\ fold' = fold + 1
                /\ CASE mode = "around_tags" ->
                         /\ part_data' = around_tags_folder(part_data, sensor, r.value)
                         /\ all_data' = around_tags_folder(all_data, sensor, r.value)
                    [] mode = "between_tags" ->
                         /\ part_data' = between_tags_folder(part_data, sensor, r.value)
                         /\ all_data' = all_data
                    [] OTHER ->
                         /\ part_data' = without_tags_folder(part_data, sensor, r.value)
                         /\ all_data' = without_tags_folder(all_data, sensor, r.value)
    /\ UNCHANGED << mode, tag_files, part, saved >>
    /\ UNCHANGED seg_vars
    /\ UNCHANGED extra_vars

\* Mutant: part_<m>_data not emptied for the next participant.
SaveParticipantWithoutReset ==
    /\ status = "running"
    /\ fold = NFold + 1
    /\ LET lists == IF mode = "between_tags"
                    THEN [part_data EXCEPT !["EDA"] = conditioned(@)]
                    ELSE part_data
       IN  /\ saved' = Append(saved, [participant |-> part, lists |-> lists])
           /\ all_data' = IF mode = "between_tags"
                          THEN [m \in Modalities |-> all_data[m] \o lists[m]]
                          ELSE all_data
    /\ part_data' = part_data
    /\ IF part < NPart
       THEN /\ part' = part + 1
            /\ fold' = 1
            /\ status' = status
       ELSE /\ status' = "returned"
            /\ UNCHANGED << part, fold >>
    /\ UNCHANGED << mode, tag_files >>
    /\ UNCHANGED seg_vars
    /\ UNCHANGED extra_vars

\* The end of one pass of the outer loop `for p in participants_folder`: the
\* five save_data calls (not_stressed_data_from_all_files conditions the EDA
\* segments first), then the next participant with fresh part_<m>_data, or
\* the return.
SaveParticipant ==
    /\ status = "running"
    /\ fold = NFold + 1
    /\ LET lists == IF mode = "between_tags"
                    THEN [part_data EXCEPT !["EDA"] = conditioned(@)]
                    ELSE part_data
       IN  /\ saved' = Append(saved, [participant |-> part, lists |-> lists])
           /\ all_data' = IF mode = "between_tags"
                          THEN [m \in Modalities |-> all_data[m] \o lists[m]]
                          ELSE all_data
    /\ part_data' = EmptyLists
    /\ IF part < NPart
       THEN /\ part' = part + 1
            /\ fold' = 1
            /\ status' = status
       ELSE /\ status' = "returned"
            /\ UNCHANGED << part, fold >>
    /\ UNCHANGED << mode, tag_files >>
    /\ UNCHANGED seg_vars
    /\ UNCHANGED extra_vars

BatchNext == ProcessFolder \/ SaveParticipant

BatchInit == BatchStart /\ SegIdle /\ TagIdle /\ WindowIdle /\ VerifiedIdle

BatchSpec == BatchInit /\ [][BatchNext]_vars

\* ------------------------------------- extract_segments_for_verified_tags
\* Mutant: the log statement reads no unbound name.
searching_print_never_raises(bound) == FALSE

\* print(f"Searching for {tag} in {tag_timestamps}"): `tag` is a local of the
\* function, bound only by the `for tag in tag_events` that follows, so reading
\* it before raises UnboundLocalError.
searching_print_raises(bound) == ~bound

\* if tag - stamps < 10
verified_close(tag, stamps) == tag - stamps < 10 * Den

\* The stamps the two loops reach the extraction with, in iteration order:
\* for tag i on, and within it for stamp j on.
RECURSIVE verified_matches(_, _, _, _)
verified_matches(events, tag_timestamps, i, j) ==
    IF i > Len(events) THEN << >>
    ELSE IF j > Len(tag_timestamps)
    THEN verified_matches(events, tag_timestamps, i + 1, 1)
    ELSE (IF verified_close(events[i], tag_timestamps[j])
          THEN << tag_timestamps[j] >> ELSE << >>)
         \o verified_matches(events, tag_timestamps, i, j + 1)

\* values = get_<m>_data_around_tags(sub_folder_path, [stamps], segment_length),
\* extended onto <m>_data, for each of the stamps from k on.
RECURSIVE verified_extend(_, _, _, _)
verified_extend(m, sensor_file, stamps, k) ==
    IF k > Len(stamps) THEN << >>
    ELSE get_data_around_tags(m, sensor_file, << stamps[k] >>, BatchSegmentLength)
         \o verified_extend(m, sensor_file, stamps, k + 1)

\* The two loops over one folder: what the lists <m>_data hold afterwards.
verified_tags_folder(lists, sensor, events, tag_timestamps) ==
    [m \in Modalities |->
        lists[m] \o verified_extend(m, sensor[m],
                                    verified_matches(events, tag_timestamps, 1, 1),
                                    1)]

VerifiedFiles ==
    { << HeaderLine >>, << HeaderLine, TagLine(4) >>,
      << HeaderLine, MalformedLine >> }

VerifiedStart ==
    /\ mode = "verified_tags"
    /\ verified_files \in [1 .. NPart -> VerifiedFiles]
    /\ tag_files \in [1 .. NPart -> [1 .. NFold -> TagFiles]]
    /\ part = 1
    /\ fold = 0
    /\ part_data = EmptyLists
    /\ saved = << >>
    /\ all_data = EmptyLists
    /\ status = "running"
    /\ tag_events = << >>
    /\ tag_bound = FALSE

VerifiedInit == VerifiedStart /\ SegIdle /\ TagIdle /\ WindowIdle

\* One pass of the outer loop up to its inner loop: the verified tags of the
\* participant are read; with none, `continue`.
ReadVerifiedTags ==
    /\ mode = "verified_tags"
    /\ status = "running"
    /\ fold = 0
    /\ LET r == get_tag_timestamps(verified_files[part])
       IN  IF r.raised
           THEN /\ status' = "raised"
                /\ UNCHANGED << part, fold, tag_events >>
           ELSE /\ tag_events' = r.value
                /\ IF Len(r.value) # 0
                   THEN /\ fold' = 1
                        /\ UNCHANGED << part, status >>
                   ELSE IF part < NPart
                   THEN /\ part' = part + 1
                        /\ UNCHANGED << fold, status >>
                   ELSE /\ status' = "returned"
                        /\ UNCHANGED << part, fold >>
    /\ UNCHANGED << mode, tag_files, part_data, saved, all_data >>
    /\ UNCHANGED << tag_file, tag_result, win_input, win_result,
                    verified_files, tag_bound >>
    /\ UNCHANGED seg_vars

\* One pass of the inner loop `for sub in subfolders`; after the last folder
\* the outer loop goes on to the next participant, or the function returns.
SearchFolder ==
    /\ mode = "verified_tags"
    /\ status = "running"
    /\ fold >= 1
    /\ LET r == get_tag_timestamps(tag_files[part][fold])
           sensor == sensor_files(part, fold)
       IN  IF r.raised \/ (Len(r.value) # 0 /\ searching_print_raises(tag_bound))
           THEN /\ status' = "raised"
                /\ UNCHANGED << part, fold, all_data, tag_bound >>
           ELSE /\ IF Len(r.value) # 0
                   THEN /\ all_data' = verified_tags_folder(all_data, sensor,
                                                            tag_events, r.value)
                        /\ tag_bound' = TRUE
                   ELSE UNCHANGED << all_data, tag_bound >>
                /\ IF fold < NFold
                   THEN /\ fold' = fold + 1
                        /\ UNCHANGED << part, status >>
                   ELSE IF part < NPart
                   THEN /\ part' = part + 1
                        /\ fold' = 0
                        /\ status' = status
                   ELSE /\ status' = "returned"
                        /\ UNCHANGED << part, fold >>
    /\ UNCHANGED << mode, tag_files, part_data, saved >>
    /\ UNCHANGED << tag_file, tag_result, win_input, win_result,
                    verified_files, tag_events >>
    /\ UNCHANGED seg_vars

VerifiedNext == ReadVerifiedTags \/ SearchFolder

VerifiedSpec == VerifiedInit /\ [][VerifiedNext]_vars

\* ------------------------------------------------------- reading tags files
MaxLines == 3       \* lines of a tags file, the header line included

\* Any line may stand first: the header is skipped whatever it holds.
FileLines == { TagLine(t) : t \in TagTimes } \cup { MalformedLine }
AllTagFiles == UNION { [1 .. k -> FileLines] : k \in 0 .. MaxLines }

TagStart ==
    /\ tag_file \in AllTagFiles
    /\ tag_result = NotCalled

TagInit == TagStart /\ SegIdle /\ BatchIdle /\ WindowIdle /\ VerifiedIdle

ReadTags ==
    /\ ~tag_result.called
    /\ tag_result' = [called |-> TRUE, result |-> get_tag_timestamps(tag_file)]
    /\ UNCHANGED << tag_file, win_input, win_result,
                    verified_files, tag_events, tag_bound >>
    /\ UNCHANGED << seg_vars, batch_vars >>

TagNext == ReadTags

TagSpec == TagInit /\ [][TagNext]_vars

\* ------------------------------------------------------ segment_sensor_data
MaxSeries == 2      \* series handed to segment_sensor_data
MaxWinLen == 4      \* samples of one such series

window_length_seconds == 60
\* overlap_percent is a fraction num / den of the window
overlap_percent == [num |-> 1, den |-> 2]

\* samples from one window's start to the next:
\* window_duration * (1 - overlap_percent) * sample_rate, times overlap.den
step_times_den(window_duration, overlap, sample_rate) ==
    window_duration * (overlap.den - overlap.num) * sample_rate

\* utl.segment_sensor_reading(dt, window_duration, overlap_percent, sample_rate):
\* the full windows of window_duration * sample_rate samples of dt, one every
\* step samples from index 0 on.
segment_sensor_reading(dt, window_duration, overlap, sample_rate) ==
    LET w == window_duration * sample_rate
        step == step_times_den(window_duration, overlap, sample_rate) \div overlap.den
        count == IF Len(dt) < w THEN 0 ELSE ((Len(dt) - w) \div step) + 1
    IN  [k \in 1 .. count |-> SubSeq(dt, (k - 1) * step + 1, (k - 1) * step + w)]

\* np.zeros((1, sample_rate * window_duration))
zeros_row(sample_rate, window_duration) ==
    << [k \in 1 .. (sample_rate * window_duration) |-> 0] >>

\* The loop of segment_sensor_data from series i on.
RECURSIVE window_loop(_, _, _, _, _, _)
window_loop(data_array, i, window_segments, sample_rate, window_duration, overlap) ==
    IF i > Len(data_array) THEN window_segments
    ELSE LET segments == segment_sensor_reading(data_array[i], window_duration,
                                                overlap, sample_rate)
         IN  window_loop(data_array, i + 1,
                         IF Len(segments) # 0
                         THEN window_segments \o segments
                         ELSE window_segments,
                         sample_rate, window_duration, overlap)

\* Mutant: the seed row left in the result.
segment_sensor_data_with_seed_row(data_array, sample_rate, window_duration, overlap) ==
    window_loop(data_array, 1, zeros_row(sample_rate, window_duration),
                sample_rate, window_duration, overlap)

segment_sensor_data(data_array, sample_rate, window_duration, overlap) ==
    Tail(window_loop(data_array, 1, zeros_row(sample_rate, window_duration),
                     sample_rate, window_duration, overlap))

\* Series i of an array holds the samples 10 * i + 1, 10 * i + 2, ...
series_of(i, len) == [k \in 1 .. len |-> 10 * i + k]
DataArrays ==
    { [i \in 1 .. n |-> series_of(i, lens[i])] :
        n \in 0 .. MaxSeries, lens \in [1 .. MaxSeries -> 0 .. MaxWinLen] }
SampleRates == { 1, 2 }
WindowDurations == { 1, 2, 3 }
Overlaps == { [num |-> 0, den |-> 1], overlap_percent,
              [num |-> 1, den |-> 3], [num |-> 2, den |-> 3] }

\* A series of two windows at the EDA rate, cut with the file's own settings.
ExampleInput ==
    [data_array |-> << [k \in 1 .. (2 * window_length_seconds * E4_SF.EDA) |-> k] >>,
     sample_rate |-> E4_SF.EDA,
     window_duration |-> window_length_seconds,
     overlap |-> overlap_percent]

\* The step is a whole number of samples, at least one.
whole_step(in) ==
    LET sd == step_times_den(in.window_duration, in.overlap, in.sample_rate)
    IN  sd > 0 /\ sd % in.overlap.den = 0

WindowInputs ==
    { in \in [data_array : DataArrays, sample_rate : SampleRates,
              window_duration : WindowDurations, overlap : Overlaps] :
        whole_step(in) }
    \cup { ExampleInput }

WindowStart ==
    /\ win_input \in WindowInputs
    /\ win_result = NotCalled

WindowInit == WindowStart /\ SegIdle /\ BatchIdle /\ TagIdle /\ VerifiedIdle

CallSegmentSensorData ==
    /\ ~win_result.called
    /\ win_result' =
         [called |-> TRUE,
          segments |-> segment_sensor_data(win_input.data_array,
                                           win_input.sample_rate,
                                           win_input.window_duration,
                                           win_input.overlap)]
    /\ UNCHANGED << tag_file, tag_result, win_input,
                    verified_files, tag_events, tag_bound >>
    /\ UNCHANGED << seg_vars, batch_vars >>

WindowNext == CallSegmentSensorData

WindowSpec == WindowInit /\ [][WindowNext]_vars

\* ------------------------------------------------------------------ claims
\* What the calls returned, read by the properties below.
AroundReturned == around.called /\ ~around.result.raised
AroundSegments == IF AroundReturned THEN around.result.segments ELSE << >>
BetweenSegments ==
    IF between.called
    THEN SubSeq(between.segments, Len(prior) + 1, Len(between.segments))
    ELSE << >>
Rows(lo, hi) == [k \in 1 .. (hi - lo) |-> lo + k - 1]    \* payload[lo:hi], 0 <= lo, hi <= L
PayloadLen == Len(data) - 2
HalfWindow == (segment_size \div 2) * data[2]
\* floor(num / den) for den > 0
Floor(num, den) == IF num >= 0 THEN num \div den ELSE -(((-num) + den - 1) \div den)
AtEndTime(t) == (t - data[1]) * data[2] = PayloadLen * Den
InRange(t) == t >= data[1] /\ (t - data[1]) * data[2] <= PayloadLen * Den

\* C1 (as claimed): the centre index of every tag-centred window is
\* floor((t - s) * r), one truncation of the product.
C1_CentreIsFloorOfProduct ==
    \A k \in 1 .. Len(AroundSegments) :
        LET e == AroundSegments[k]
        IN  e.position = Floor((tags[e.tag] - data[1]) * data[2], Den)

\* C2 (as claimed): the segment of an in-range tag with centre c is
\* payload[max(0, c - n) : min(L, c + n)], its bounds stay within 0 .. L, a tag
\* at start_time starts at index 0 and a tag at end_time ends at index L.
C2_WindowClampedToPayload ==
    \A k \in 1 .. Len(AroundSegments) :
        LET e == AroundSegments[k]
            lo == Max(0, e.position - HalfWindow)
            hi == Min(PayloadLen, e.position + HalfWindow)
        IN  /\ e.from_ = lo /\ e.to_ = hi
            /\ 0 <= e.from_ /\ e.to_ <= PayloadLen
            /\ e.seg = Rows(lo, hi)
            /\ (tags[e.tag] = data[1] => e.from_ = 0)
            /\ (AtEndTime(tags[e.tag]) => e.to_ = PayloadLen)

\* C3: one segment per tag t with start_time <= t <= start_time + L/rate, none
\* for any other tag, in the order of the tag list, duplicates kept.
C3_OneSegmentPerInRangeTag ==
    AroundReturned =>
        LET inr == { i \in 1 .. Len(tags) : InRange(tags[i]) }
            out == AroundSegments
        IN  /\ Len(out) = Cardinality(inr)
            /\ \A k \in 1 .. Len(out) : out[k].tag \in inr
            /\ \A k \in 1 .. Len(out) : \A l \in 1 .. Len(out) :
                   k < l => out[k].tag < out[l].tag

C3_Witness ==
    /\ AroundReturned
    /\ Len(tags) = 2
    /\ tags[1] > tags[2]
    /\ AtEndTime(tags[1])
    /\ Len(AroundSegments) = 2

\* The boundary sequence of the inter-tag segmenter as sample offsets times Den:
\* start_time, the tags, and a last boundary lastRows samples after start_time.
BoundaryOffset(i, lastRows) ==
    IF i = 1 THEN 0
    ELSE IF i = Len(tags) + 2 THEN lastRows * Den
    ELSE (tags[i - 1] - data[1]) * data[2]
Pairs == 1 .. (Len(tags) + 1)
BetweenCase == between.called /\ Len(data) > 0 /\ Len(tags) > 0

C5_GuardBandKeepsOutputsApart ==
    ( /\ AroundReturned /\ BetweenCase
      /\ \A i \in 1 .. Len(tags) : InRange(tags[i])
      /\ \A i \in 1 .. Len(tags) - 1 : tags[i] <= tags[i + 1] )
    => \A k \in 1 .. Len(AroundSegments) : \A l \in 1 .. Len(BetweenSegments) :
           { AroundSegments[k].seg[x] : x \in 1 .. Len(AroundSegments[k].seg) }
           \cap { BetweenSegments[l].seg[x] : x \in 1 .. Len(BetweenSegments[l].seg) }
           = {}

\* C6 (as claimed): an unreadable file gives the empty series, and every
\* segmenter given it returns without raising and adds no segment.
C6_EmptySeriesAddsNothing ==
    (~file.ok /\ stage = "read") =>
        /\ data = << >>
        /\ (around.called => ~around.result.raised /\ around.result.segments = << >>)
        /\ (between.called => between.segments = prior)

\* C7 (as claimed): every segment either segmenter emits holds at least one
\* sample.
C7_NoEmptySegmentEmitted ==
    /\ \A k \in 1 .. Len(AroundSegments) : Len(AroundSegments[k].seg) > 0
    /\ \A k \in 1 .. Len(BetweenSegments) : Len(BetweenSegments[k].seg) > 0

\* C8 (as claimed): with an empty tag list exactly one segment is added, the
\* full payload, for every series.
C8_EmptyTagListAddsPayload ==
    (between.called /\ tags = << >>) =>
        /\ Len(between.segments) = Len(prior) + 1
        /\ between.segments[Len(between.segments)].seg = Rows(0, Len(file.rows) - 2)

\* C8 (amended): with an empty tag list and a series that was read
\* (len(data) > 0) exactly one segment is added, the full payload (all rows
\* after the two header rows); for the empty series of a failed read none is.
C8_EmptyTagListAddsPayloadOfReadSeries ==
    (between.called /\ tags = << >>) =>
        IF Len(data) > 0
        THEN between.segments = Append(prior, [pair |-> 0, here_ |-> 2,
                                               there_ |-> PayloadLen + 2,
                                               seg |-> Rows(0, PayloadLen)])
        ELSE between.segments = prior

C8_Witness ==
    /\ between.called /\ tags = << >>
    /\ file.ok /\ PayloadLen = MaxLen
    /\ Len(prior) = 1
    /\ Len(between.segments) = 2

\* C9: two consecutive tags t1 < t2 less than 2 * n_observation / sampling_freq
\* seconds apart give no segment for the pair (t1, t2).
C9_CloseTagsGiveNoSegment ==
    BetweenCase =>
        \A k \in 1 .. Len(tags) - 1 :
            ( /\ tags[k] < tags[k + 1]
              /\ (tags[k + 1] - tags[k]) * data[2] < 2 * HalfWindow * Den )
            => \A l \in 1 .. Len(BetweenSegments) : BetweenSegments[l].pair # k + 1

C9_Witness ==
    /\ BetweenCase
    /\ Len(tags) = 2
    /\ tags[1] < tags[2]
    /\ (tags[2] - tags[1]) * data[2] < 2 * HalfWindow * Den
    /\ InRange(tags[1]) /\ InRange(tags[2])
    /\ Len(BetweenSegments) = 2
    /\ BetweenSegments[1].pair = 1 /\ BetweenSegments[2].pair = 3
    /\ Len(BetweenSegments[1].seg) > 0 /\ Len(BetweenSegments[2].seg) > 0

\* C10 (as claimed): a malformed row in one folder's tags file never aborts
\* the batch: the loop goes on to the next folder and participant.
C10_MalformedTagFileDoesNotAbortBatch ==
    status # "raised"

\* C11 (as claimed): a file of fewer than 2 lines gives the empty sequence; a
\* file of k >= 2 lines gives exactly k - 1 timestamps, column 0 of lines 2 .. k
\* in file order.
C11_OneTimestampPerLineAfterHeader ==
    tag_result.called =>
        /\ ~tag_result.result.raised
        /\ tag_result.result.value =
             [k \in 1 .. Max(Len(tag_file) - 1, 0) |-> tag_file[k + 1].value]

\* C11 (amended): the same for a file whose lines 2 .. k all hold a number in
\* column 0; a file with a line after the header that does not makes the call
\* raise and return nothing.
C11_OneTimestampPerParsedLine ==
    tag_result.called =>
        IF \E k \in 2 .. Len(tag_file) : ~tag_file[k].numeric
        THEN tag_result.result.raised
        ELSE /\ ~tag_result.result.raised
             /\ Len(tag_result.result.value) = Max(Len(tag_file) - 1, 0)
             /\ \A k \in 2 .. Len(tag_file) :
                    tag_result.result.value[k - 1] = tag_file[k].value

C11_Witness ==
    /\ tag_result.called
    /\ Len(tag_file) = 3
    /\ tag_file[1].numeric
    /\ ~tag_result.result.raised
    /\ Len(tag_result.result.value) = 2
    /\ tag_result.result.value[1] > tag_result.result.value[2]

\* C15: get_segments_between_timestamps only appends: the list it returns
\* starts with the accumulator's earlier entries, unchanged and in order, and
\* for an empty series it is the accumulator itself.
C15_AccumulatorIsUnchangedPrefix ==
    between.called =>
        /\ Len(between.segments) >= Len(prior)
        /\ SubSeq(between.segments, 1, Len(prior)) = prior
        /\ Len(data) = 0 => between.segments = prior

C15_Witness ==
    /\ between.called
    /\ prior = << EarlierSegment >>
    /\ Len(tags) > 0
    /\ Len(between.segments) = 3
    /\ between.segments[1] = EarlierSegment
    /\ between.segments[2].seg # << >>

\* C16 (as claimed): for every tag list, each new segment is the run of
\* payload indices [here, there) with 0 <= here < there, and the new segments
\* are pairwise non-overlapping; no start index is negative.
C16_SegmentsAreDisjointForwardRuns ==
    BetweenCase =>
        LET out == BetweenSegments
        IN  /\ \A k \in 1 .. Len(out) :
                   /\ 0 <= out[k].here_
                   /\ out[k].here_ < out[k].there_
                   /\ out[k].seg = Rows(out[k].here_,
                                        Min(out[k].there_, PayloadLen))
            /\ \A j, k \in 1 .. Len(out) :
                   j < k => \/ out[j].there_ <= out[k].here_
                            \/ out[k].there_ <= out[j].here_

\* The window length W and step S of the call, and the window starts of a
\* series of len samples.
WinW == win_input.window_duration * win_input.sample_rate
WinS ==
    step_times_den(win_input.window_duration, win_input.overlap,
                   win_input.sample_rate) \div win_input.overlap.den
WinStarts(len) == { st \in 0 .. len : st % WinS = 0 /\ st + WinW <= len }
RECURSIVE WindowsBefore(_)
WindowsBefore(i) ==
    IF i <= 1 THEN 0
    ELSE WindowsBefore(i - 1)
         + Cardinality(WinStarts(Len(win_input.data_array[i - 1])))

\* C12: segment_sensor_data returns, for the series in input order, exactly the
\* windows starting at 0, S, 2S, ... with start + W <= L, each of W samples; no
\* other row (so never the zero seed row), and no row at all when no series is
\* long enough.  480 samples at rate 4, window 60 s, overlap 0.5: 3 windows
\* at 0, 120, 240.
C12_FullWindowsInInputOrder ==
    win_result.called =>
        LET arr == win_input.data_array
            out == win_result.segments
        IN  /\ Len(out) = WindowsBefore(Len(arr) + 1)
            /\ \A i \in 1 .. Len(arr) :
                 \A st \in WinStarts(Len(arr[i])) :
                    out[WindowsBefore(i) + (st \div WinS) + 1]
                      = [k \in 1 .. WinW |-> arr[i][st + k]]
            /\ (\A i \in 1 .. Len(arr) : Len(arr[i]) < WinW) => out = << >>
            /\ win_input = ExampleInput =>
                 /\ Len(out) = 3
                 /\ \A r \in 1 .. 3 :
                      /\ Len(out[r]) = 240
                      /\ out[r][1] = 120 * (r - 1) + 1

C12_Witness ==
    /\ win_result.called
    /\ Len(win_input.data_array) = 2
    /\ win_input.overlap.num > 0
    /\ WindowsBefore(2) >= 1
    /\ Len(win_result.segments) > WindowsBefore(2)
    /\ \E i \in 1 .. 2 :
          /\ Len(win_input.data_array[i]) > WinW
          /\ (Len(win_input.data_array[i]) - WinW) % WinS # 0

\* What a saved entry was cut from: its samples (inside the conditioning, for
\* the EDA lists), and from them the folder (sensor_files gives sample 100 * p + 10 * f + k to folder f
\* of participant p); its place in the folder's own iteration: the number of
\* the tag in the tag list, of the pair of boundaries or of the window.
SamplesOf(m, entry) ==
    IF m = "EDA" /\ mode # "without_tags" THEN entry.seg[2] ELSE entry.seg
FolderOf(m, entry) == (SamplesOf(m, entry)[1] % 100) \div 10
PlaceInFolder(entry) ==
    CASE mode = "around_tags" -> entry.tag
      [] mode = "between_tags" -> entry.pair
      [] OTHER -> entry.window

SavedAfterOwnFolders ==
    /\ Len(saved) = (IF status = "returned" THEN NPart ELSE part - 1)
    /\ \A i \in 1 .. Len(saved) : saved[i].participant = i

SavedHoldsOwnSegmentsInOrder ==
    \A i \in 1 .. Len(saved) : \A m \in Modalities :
        LET list == saved[i].lists[m]
        IN  /\ \A k \in 1 .. Len(list) :
                   /\ SamplesOf(m, list[k]) # << >>
                   /\ \A x \in 1 .. Len(SamplesOf(m, list[k])) :
                          SamplesOf(m, list[k])[x] \div 100 = i
            /\ \A j, k \in 1 .. Len(list) :
                   j < k =>
                     \/ FolderOf(m, list[j]) < FolderOf(m, list[k])
                     \/ /\ FolderOf(m, list[j]) = FolderOf(m, list[k])
                        /\ PlaceInFolder(list[j]) < PlaceInFolder(list[k])

SavedIsKept ==
    /\ Len(saved') >= Len(saved)
    /\ \A i \in 1 .. Len(saved) : saved'[i] = saved[i]
    /\ Len(saved') > Len(saved) => fold = NFold + 1 /\ status = "running"

\* C13: the outputs of participant p are saved once, after all of p's folders
\* and before any folder of participant p + 1 is read; a saved collection holds
\* only p's segments, by folder and within a folder by tag; a save is never
\* undone or changed, so when the run stops at participant k the outputs of
\* participants 1 .. k - 1 are the saved ones.
C13_SavedPerParticipantInOrder ==
    /\ [](SavedAfterOwnFolders /\ SavedHoldsOwnSegmentsInOrder)
    /\ [][SavedIsKept]_vars

C13_Witness ==
    /\ status = "raised"
    /\ part = 2
    /\ fold = 2
    /\ mode = "around_tags"
    /\ Len(saved) = 1
    /\ Len(saved[1].lists["HR"]) = 4
    /\ Len(part_data["HR"]) = 2

\* The pass of the inner loop about to run finds tag timestamps in its folder.
FolderHasTags ==
    /\ mode = "verified_tags"
    /\ status = "running"
    /\ fold >= 1
    /\ ~get_tag_timestamps(tag_files[part][fold]).raised
    /\ Len(get_tag_timestamps(tag_files[part][fold]).value) # 0

\* C14: in extract_segments_for_verified_tags `tag` is never bound and nothing
\* is ever extracted: the first folder found with tag timestamps, for a
\* participant with verified tags, ends the call with an error, so the call
\* returns only with its five lists empty.
C14_UnboundTagStopsBeforeExtraction ==
    /\ [](/\ ~tag_bound
          /\ \A m \in Modalities : all_data[m] = << >>)
    /\ [][FolderHasTags => status' = "raised"]_vars

C14_Witness ==
    /\ mode = "verified_tags"
    /\ status = "raised"
    /\ part = 2
    /\ fold = 2
    /\ Len(tag_events) > 0
    /\ ~get_tag_timestamps(tag_files[part][fold]).raised
    /\ Len(get_tag_timestamps(tag_files[part][fold]).value) = 2

=============================================================================
